---- MODULE Spec2Model ----
(***************************************************************************)
(* SPI Flash "ROM" (hello_spi/spi_rom.py): the SPI_ROM state machine and   *)
(* its Wishbone request/acknowledge handshake, one step per clock tick of  *)
(* the "sync" domain.                                                      *)
(*                                                                         *)
(* A state holds the registers as they are after a clock edge together     *)
(* with the bus inputs (adr, cyc, stb) the requester presents for the next *)
(* edge.  Every action is one clock edge taken in one FSM state: it        *)
(* computes the registered (m.d.sync) assignments from the current         *)
(* registers and inputs, and lets the requester choose its next inputs.    *)
(* Combinational signals (spio, mosi, miso, clk_en) are operators over the *)
(* current state.                                                          *)
(*                                                                         *)
(* 32-bit data words (dat_r, the test ROM image) are sets of the bit       *)
(* positions that hold 1, so that words with bit 31 set stay exact.        *)
(***************************************************************************)
EXTENDS Integers, Sequences, FiniteSets, TLC

\* Bus addresses the requester presents are taken from 0..MaxAdr.
MaxAdr == 4

\* Window lengths (dat_end - dat_start + 1) of the instances constructed
\* for the address-width check are taken from 1..MaxLen.
MaxLen == 8

\* ---------------------------------------------------------------- words

\* x >> n on a value below 2^31 (a shift by 31 or more leaves 0).
Shr(x, n) == IF n >= 31 THEN 0 ELSE x \div (2 ^ n)

\* Bit k of a value below 2^31.
Bit(x, k) == Shr(x, k) % 2

RECURSIVE BitAnd(_, _)
BitAnd(a, b) ==
  IF a = 0 \/ b = 0 THEN 0
  ELSE (a % 2) * (b % 2) + 2 * BitAnd(a \div 2, b \div 2)

RECURSIVE BitOr(_, _)
BitOr(a, b) ==
  IF a = 0 THEN b
  ELSE IF b = 0 THEN a
  ELSE (IF a % 2 = 1 \/ b % 2 = 1 THEN 1 ELSE 0) + 2 * BitOr(a \div 2, b \div 2)

\* The 32-bit word whose upper half is hi and lower half is lo.
Word(hi, lo) ==
  {k \in 0..31 : IF k < 16 THEN Bit(lo, k) = 1 ELSE Bit(hi, k - 16) = 1}

\* ------------------------------------------------------ configuration

\* SPI_ROM( dat_start, dat_end, data ): the testbench's instance, and an
\* instance at the top of the 24-bit device address space.
Configs ==
  << [dstart |-> \h200000, dend |-> \h200400,
      data |-> << Word(\h89AB, \hCDEF), Word(\h0C0F, \hFEE0),
                  Word(\hBABA, \hBABA), Word(\hABAC, \hADAB),
                  Word(\hDEAD, \hFACE), Word(\h1234, \h5678),
                  Word(\h8765, \h4321), Word(\hDEAD, \hBEEF),
                  Word(\hDEAD, \hBEEF) >>],
     [dstart |-> \hFFFFFF, dend |-> \hFFFFFF,
      data |-> << Word(\h0C0F, \hFEE0) >>] >>

\* Windows of every length 1..MaxLen, at offset 0 and at the testbench's
\* offset, each over a one-word image.
WidthConfigs ==
  [i \in 1..(2 * MaxLen) |->
     [dstart |-> IF i % 2 = 1 THEN 0 ELSE \h200000,
      dend |-> (IF i % 2 = 1 THEN 0 ELSE \h200000) + ((i + 1) \div 2) - 1,
      data |-> << Word(\h89AB, \hCDEF) >>]]

Instances == Configs \o WidthConfigs

VARIABLES
  cfg,      \* which SPI_ROM instance was constructed
  fsm,      \* FSM state
  dc,       \* self.dc, 5-bit data counter
  cs,       \* self.spi.cs.o
  ack,      \* self.ack
  dat_r,    \* self.dat_r
  adr,      \* self.adr   (input)
  cyc,      \* self.cyc   (input)
  stb,      \* self.stb   (input)
  lat,      \* history: clock edges since the request of the running read was sampled
  stable,   \* history: adr has not changed since that request was sampled
  req,      \* history: what cyc/stb did at the edges of the running read
  b2b,      \* history: the running read was requested right after an ack
  ack_prev  \* history: ack before the last clock edge

vars ==
  << cfg, fsm, dc, cs, ack, dat_r, adr, cyc, stb, lat, stable, req, b2b, ack_prev >>

dstart == Instances[cfg].dstart
dend == Instances[cfg].dend
data == Instances[cfg].data
dlen == (dend - dstart) + 1

\* ceil( log2( n ) ) for n >= 1
CeilLog2(n) == CHOOSE k \in 0..30 : 2 ^ k >= n /\ \A j \in 0..(k - 1) : 2 ^ j < n

\* Variant: the width is taken from the length, without the + 1.
addr_width_NoPlus == CeilLog2(dlen)

addr_width == CeilLog2(dlen + 1)

\* Addresses presented: representable in addr_width bits and inside the
\* test ROM image.
Adrs == {a \in 0..MaxAdr : a < 2 ^ addr_width /\ (a \div 4) < Len(data)}

\* -------------------------------------------------- combinational signals

\* Variant: the offset address is added to the opcode without the 24-bit mask.
spio_NoMask == \h03000000 + (adr + dstart)

spio == BitOr(\h03000000, BitAnd(adr + dstart, \h00FFFFFF))

\* self.data[ self.adr >> 2 ]
RomWord(a) == data[(a \div 4) + 1]

\* ( self.data[ self.adr >> 2 ] >> self.dc ) & 0b1
miso == IF dc \in RomWord(adr) THEN 1 ELSE 0

\* Variant: the command is shifted out least-significant bit first.
mosi_LsbFirst ==
  CASE fsm = "SPI_POWERUP" -> Shr(\hAB, (7 - dc) % 64) % 2
    [] fsm = "SPI_TX" -> Shr(spio, 31 - dc) % 2
    [] OTHER -> 0

mosi ==
  CASE fsm = "SPI_POWERUP" -> Shr(\hAB, (7 - dc) % 64) % 2
    [] fsm = "SPI_TX" -> Shr(spio, dc) % 2
    [] OTHER -> 0

\* spi.clk.o is ~ClockSignal in these states and 0 in the others.
clk_en == fsm \in {"SPI_POWERUP", "SPI_TX", "SPI_RX"}

\* ------------------------------------------------------------ requester

\* The requester's inputs for the next edge.  While a read is running the
\* address changes at most once.
\*   req = "held"    : cyc and stb were 1 at every edge since the request
\*   req = "dropped" : cyc or stb was 0 at the last edge of the read
\*   req = "late"    : cyc and stb were both 1 at the last edge of the read,
\*                     after an edge at which one was 0 (a request issued
\*                     while the read was running)
\*   req = "none"    : no read is running or has just completed
Requester(running) ==
  /\ cyc' \in 0..1
  /\ stb' \in 0..1
  /\ adr' \in (IF running => stable THEN Adrs ELSE {adr})
  /\ stable' = (running /\ stable /\ adr' = adr)
  /\ req' = IF ~running THEN "none"
            ELSE IF cyc = 1 /\ stb = 1
              THEN (IF req = "held" THEN "held" ELSE "late")
              ELSE "dropped"
  /\ b2b' = (running /\ b2b)

\* ------------------------------------------------------------- the FSM

\* Variant: a pending request ends the idle gap early.
PowerupDone_OnRequest == dc = 30 \/ (dc >= 8 /\ cyc = 1 /\ stb = 1)

\* m.If( self.dc == 30 )
PowerupDone == dc = 30

\* Variant: a request is accepted without looking at ack.
WaitingRequest_NoAck == (cyc = 1) /\ (stb = 1)

\* Variant: a strobe alone starts a read.
WaitingRequest_NoCyc == (stb = 1) /\ (ack = 0)

WaitingRequest == (cyc = 1) /\ (stb = 1) /\ (ack = 0)

\* Variant: ack is a one-shot pulse, cleared whatever cyc and stb do.
WaitingAck_OneShot == IF ack = 1 THEN 0 ELSE ack

WaitingAck == IF cyc = 1 /\ ack = 1 /\ stb = 1 THEN 1 ELSE 0

\* Variant: the command starts one bit too low.
TxStart_Low == 31 - 1

\* self.dc.eq( 31 ) when a request is accepted
TxStart == 31

\* Variant: a released strobe cuts the command short.
TxDone_Abort == dc = 0 \/ stb = 0

\* Variant: the command ends one bit early.
TxDone_Early == dc = 1

TxDone == dc = 0

RxByteEnd == dc % 8 = 0

RxWordEnd == dc \div 8 = 3

\* Variant: ack is raised only for a request that is still strobed.
RxAck_Strobed == IF cyc = 1 /\ stb = 1 THEN 1 ELSE 0

RxAck == cyc

\* Variant: dat_r is not cleared before the word is received.
TxClear_Keep == dat_r

\* self.dat_r.eq( 0 ) when the last command bit has been sent
TxClear == {}

\* Variant: chip select is left as it is when the word is complete.
RxCs_Keep == cs

\* self.spi.cs.o.eq( 0 ) when the word is complete
RxCs == 0

\* Variant: the power-up sequence is run again after every word.
RxNext_Powerup == "SPI_POWERUP"

RxNext_Stay == "SPI_RX"

\* m.next when the word is complete
RxNext == "SPI_WAITING"

\* Variant: the counter is rewound to the bottom of the next byte.
RxRewind_Bottom == (dc + 8) % 32

RxRewind == (dc + 15) % 32

\* self.dat_r | ( self.spi.miso.i << self.dc )
RxAccumulate == IF miso = 1 THEN dat_r \cup {dc} ELSE dat_r

Init ==
  /\ cfg \in 1..Len(Configs)
  /\ fsm = "SPI_RESET"
  /\ dc = 0
  /\ cs = 0
  /\ ack = 0
  /\ dat_r = {}
  /\ cyc \in 0..1
  /\ stb \in 0..1
  /\ adr \in Adrs
  /\ lat = 0
  /\ stable = FALSE
  /\ req = "none"
  /\ b2b = FALSE
  /\ ack_prev = 0

Reset ==
  /\ fsm = "SPI_RESET"
  /\ cs' = 1
  /\ fsm' = "SPI_POWERUP"
  /\ UNCHANGED << cfg, dc, ack, dat_r, lat >>
  /\ ack_prev' = ack
  /\ Requester(FALSE)

Powerup ==
  /\ fsm = "SPI_POWERUP"
  /\ dc' = (dc + 1) % 32
  /\ IF PowerupDone
       THEN cs' = 0 /\ fsm' = "SPI_WAITING"
       ELSE IF dc >= 8
         THEN cs' = 0 /\ fsm' = "SPI_POWERUP"
         ELSE cs' = cs /\ fsm' = "SPI_POWERUP"
  /\ UNCHANGED << cfg, ack, dat_r, lat >>
  /\ ack_prev' = ack
  /\ Requester(FALSE)

Waiting ==
  /\ fsm = "SPI_WAITING"
  /\ IF WaitingRequest
       THEN /\ cs' = 1
            /\ ack' = 0
            /\ dc' = TxStart
            /\ fsm' = "SPI_TX"
            /\ lat' = 1
            /\ adr' \in Adrs
            /\ stable' = (adr' = adr)
            /\ req' = "held"
            /\ b2b' = (ack_prev = 1)
       ELSE /\ ack' = WaitingAck
            /\ cs' = 0
            /\ dc' = dc
            /\ fsm' = "SPI_WAITING"
            /\ lat' = 0
            /\ adr' \in Adrs
            /\ stable' = FALSE
            /\ req' = "none"
            /\ b2b' = FALSE
  /\ cyc' \in 0..1
  /\ stb' \in 0..1
  /\ ack_prev' = ack
  /\ UNCHANGED << cfg, dat_r >>

Tx ==
  /\ fsm = "SPI_TX"
  /\ IF TxDone
       THEN dc' = 7 /\ dat_r' = TxClear /\ fsm' = "SPI_RX"
       ELSE dc' = (dc - 1) % 32 /\ dat_r' = dat_r /\ fsm' = "SPI_TX"
  /\ lat' = lat + 1
  /\ ack_prev' = ack
  /\ UNCHANGED << cfg, cs, ack >>
  /\ Requester(TRUE)

Rx ==
  /\ fsm = "SPI_RX"
  /\ dat_r' = RxAccumulate
  /\ IF RxByteEnd
       THEN IF RxWordEnd
              THEN /\ cs' = RxCs
                   /\ ack' = RxAck
                   /\ dc' = (dc - 1) % 32
                   /\ fsm' = RxNext
              ELSE /\ dc' = RxRewind
                   /\ fsm' = "SPI_RX"
                   /\ UNCHANGED << cs, ack >>
       ELSE /\ dc' = (dc - 1) % 32
            /\ fsm' = "SPI_RX"
            /\ UNCHANGED << cs, ack >>
  /\ lat' = lat + 1
  /\ ack_prev' = ack
  /\ cfg' = cfg
  /\ Requester(TRUE)

Next == Reset \/ Powerup \/ Waiting \/ Tx \/ Rx

Spec == Init /\ [][Next]_vars

\* Construction of any of the instances, followed by its power-up: the
\* specification under which the address width is checked.
WidthInit ==
  /\ cfg \in 1..Len(Instances)
  /\ fsm = "SPI_RESET"
  /\ dc = 0
  /\ cs = 0
  /\ ack = 0
  /\ dat_r = {}
  /\ cyc \in 0..1
  /\ stb \in 0..1
  /\ adr \in Adrs
  /\ lat = 0
  /\ stable = FALSE
  /\ req = "none"
  /\ b2b = FALSE
  /\ ack_prev = 0

WidthNext == Reset \/ Powerup

WidthSpec == WidthInit /\ [][WidthNext]_vars

\* ------------------------------------------------------------------
\* Shared state predicates

\* The state right after the edge that completed a read.
Completed == fsm = "SPI_WAITING" /\ lat > 0

\* ack is 1 and was 0 before the last edge.
AckRose == ack = 1 /\ ack_prev = 0

TypeOK ==
  /\ fsm \in {"SPI_RESET", "SPI_POWERUP", "SPI_WAITING", "SPI_TX", "SPI_RX"}
  /\ dc \in 0..31
  /\ cs \in 0..1
  /\ ack \in 0..1
  /\ dat_r \subseteq 0..31
  /\ adr \in Adrs

\* ------------------------------------------------------------------
\* C1: when ack becomes 1 for a read whose address was held stable, dat_r
\* is the whole ROM word at index adr >> 2 (every bit position as sampled,
\* nothing left from an earlier read), and dat_r does not change while ack
\* stays 1.
C1_WordIntegrity ==
  /\ []((AckRose /\ stable) => dat_r = RomWord(adr))
  /\ [][(ack = 1 /\ ack' = 1) => dat_r' = dat_r]_vars

\* A read of word 1 completes with its address held stable.
C1_Witness ==
  /\ AckRose /\ stable /\ cfg = 1 /\ adr = 4
  /\ dat_r = Word(\h0C0F, \hFEE0)

\* ------------------------------------------------------------------
\* C2 (as stated): ack is 1 for exactly one tick, and is 0 on the next tick
\* even if cyc and stb stay high.
C2_OneTickPulse == ack_prev = 1 => ack = 0

\* C2 (amended): ack is raised only by the edge that completes a read, only
\* in WAITING is it 1, and from then on it follows cyc & stb: it stays 1
\* while both are sampled high and falls at the first edge that samples
\* one of them low.
C2_AckHeldUntilRelease ==
  [][ /\ (ack = 1 => fsm = "SPI_WAITING" /\ fsm' = "SPI_WAITING")
      /\ (ack = 1 => (ack' = 1 <=> (cyc = 1 /\ stb = 1)))
      /\ ((ack = 0 /\ ack' = 1) => (fsm = "SPI_RX" /\ fsm' = "SPI_WAITING")) ]_vars

\* ack is still 1 on the tick after the one in which it rose.
C2_Witness == ack = 1 /\ ack_prev = 1 /\ cyc = 1 /\ stb = 1

C4_CommandWord ==
  /\ spio \div (2 ^ 24) = 3
  /\ spio % (2 ^ 24) = (adr + dstart) % (2 ^ 24)

\* A command is being sent for an address whose sum with dstart carries
\* out of bit 23.
C4_Witness == fsm = "SPI_TX" /\ adr + dstart >= 2 ^ 24

C6_ChipSelect ==
  fsm \in {"SPI_WAITING", "SPI_TX", "SPI_RX"} =>
    (cs = 1 <=> fsm \in {"SPI_TX", "SPI_RX"})

\* Idle after a completed read, with a strobe that is no request.
C6_Witness ==
  /\ fsm = "SPI_WAITING" /\ cs = 0 /\ lat = 0 /\ ack = 0 /\ ack_prev = 0
  /\ dat_r # {} /\ cyc = 0 /\ stb = 1

\* ------------------------------------------------------------------
\* C7: RESET is left at the first tick and never entered again, and once
\* WAITING has been reached the engine stays in WAITING, TRANSMIT and
\* RECEIVE whatever the bus inputs are.
C7_PowerupOnce ==
  [][ /\ (fsm = "SPI_RESET" => fsm' = "SPI_POWERUP")
      /\ (fsm # "SPI_RESET" => fsm' # "SPI_RESET")
      /\ (fsm \in {"SPI_WAITING", "SPI_TX", "SPI_RX"}
            => fsm' \in {"SPI_WAITING", "SPI_TX", "SPI_RX"}) ]_vars

\* A read has completed and the engine is back in WAITING.
C7_Witness == Completed

\* ------------------------------------------------------------------
\* C8: a request presented on the tick right after the tick in which ack
\* was 1 (the requester released cyc/stb for that one tick, as the
\* testbench does with end_wait = 0) is accepted at once: the next state is
\* TRANSMIT with cs = 1 and dc = 31.  That read sends the command word of
\* its own address and returns the ROM word of its own address.
C8_BackToBack ==
  /\ [][(fsm = "SPI_WAITING" /\ ack_prev = 1 /\ ack = 0 /\ cyc = 1 /\ stb = 1)
          => (fsm' = "SPI_TX" /\ cs' = 1 /\ dc' = 31 /\ b2b')]_vars
  /\ []((b2b /\ fsm = "SPI_TX" /\ stable) =>
          /\ spio % (2 ^ 24) = (adr + dstart) % (2 ^ 24)
          /\ mosi = Bit(spio, 32 - lat))
  /\ []((b2b /\ AckRose /\ stable) => dat_r = RomWord(adr))

\* A back-to-back read of word 1 completes.
C8_Witness ==
  /\ b2b /\ AckRose /\ stable /\ cfg = 1 /\ adr = 4
  /\ dat_r = Word(\h0C0F, \hFEE0)

\* ------------------------------------------------------------------
\* C9: a request raised while a read is running (cyc and stb both 1 again
\* after one of them was 0 during TRANSMIT or RECEIVE) gets no ack from
\* the running read.
C9_NoAckForLateRequest == (Completed /\ req = "late") => ack = 0

\* ------------------------------------------------------------------
\* C10: in WAITING, a tick at which cyc and stb are not both 1 changes
\* nothing: the engine stays in WAITING, cs stays 0, dc and dat_r keep
\* their values and ack is not raised.
C10_MalformedIgnored ==
  [][(fsm = "SPI_WAITING" /\ ~(cyc = 1 /\ stb = 1)) =>
       /\ fsm' = "SPI_WAITING"
       /\ cs = 0 /\ cs' = 0
       /\ dc' = dc
       /\ dat_r' = dat_r
       /\ ack' = 0 ]_vars

\* In WAITING after a read, a strobe without cycle is presented for the
\* second tick in a row.
C10_Witness ==
  /\ fsm = "SPI_WAITING" /\ lat = 0 /\ ack = 0 /\ ack_prev = 0
  /\ dat_r # {} /\ cyc = 0 /\ stb = 1 /\ dc = 23

\* ------------------------------------------------------------------
\* C11: an accepted read runs to completion whatever cyc and stb do.  At
\* every tick of the read the FSM state and dc are fixed by the number of
\* ticks since the request alone: TRANSMIT with dc = 31..0, RECEIVE with
\* dc = 7..0, 15..8, 23..16, 31..24, and WAITING again at tick 65; no tick
\* of a read is spent anywhere else.
C11_RunsToCompletion ==
  /\ fsm = "SPI_TX" => (lat \in 1..32 /\ dc = 32 - lat)
  /\ fsm = "SPI_RX" =>
       (lat \in 33..64 /\ dc = 8 * ((lat - 33) \div 8) + 7 - ((lat - 33) % 8))
  /\ lat \in 1..64 => fsm \in {"SPI_TX", "SPI_RX"}
  /\ Completed => (lat = 65 /\ dc = 23)
  /\ lat \in 0..65

\* A read has completed although cyc and stb were both low at its last
\* edge.
C11_Witness == Completed /\ req = "dropped" /\ ack = 0 /\ lat = 65

\* ------------------------------------------------------------------
\* C12 (as stated): the address width is sized exactly to the window: no
\* value representable in addr_width bits lies beyond dlen, so no address
\* beyond dlen can be presented.
C12_SizedExactly == (2 ^ addr_width) - 1 <= dlen /\ adr <= dlen

\* C12 (amended): addr_width is the smallest width in which every value
\* 0..dlen is representable; one bit less does not hold dlen.  (Values
\* beyond dlen are therefore representable whenever dlen + 1 is not a
\* power of two.)
C12_MinimalWidth ==
  /\ 2 ^ addr_width >= dlen + 1
  /\ addr_width > 0 => 2 ^ (addr_width - 1) < dlen + 1
  /\ adr < 2 ^ addr_width

\* An address beyond the window length is on the bus of an instance whose
\* width admits it.
C12_Witness == fsm = "SPI_POWERUP" /\ adr > dlen /\ adr < 2 ^ addr_width

\* ------------------------------------------------------------------
\* C13: in WAITING ack is kept until stb (or cyc) is released.  A tick with
\* ack = 1 leaves the engine in WAITING with cs = 0 and dc unchanged (no
\* second read is started); ack stays 1 if cyc and stb are both 1 and
\* falls otherwise; a read is started only from a state with ack = 0.
C13_AckKeptUntilStrobeReleased ==
  [][ /\ (fsm = "SPI_WAITING" /\ ack = 1) =>
           /\ fsm' = "SPI_WAITING"
           /\ cs' = 0
           /\ dc' = dc
           /\ lat' = 0
           /\ ack' = (IF cyc = 1 /\ stb = 1 THEN 1 ELSE 0)
      /\ (fsm = "SPI_WAITING" /\ fsm' = "SPI_TX") =>
           (ack = 0 /\ cyc = 1 /\ stb = 1) ]_vars

\* The requester has kept cyc and stb high through two WAITING ticks after
\* the read completed, and ack is still 1.
C13_Witness ==
  /\ fsm = "SPI_WAITING" /\ ack = 1 /\ ack_prev = 1 /\ lat = 0
  /\ cs = 0 /\ dc = 23 /\ cyc = 1 /\ stb = 1

\* ------------------------------------------------------------------
\* C14: the SPI clock idles low: in every state with cs deasserted the
\* clock output is held at 0, and it is driven with the toggling clock
\* only in ticks with cs asserted.
C14_ClockIdlesLow == cs = 0 => ~clk_en

\* ------------------------------------------------------------------
\* C15: during POWERUP the opcode 0xAB goes out as exactly 8 bits, most
\* significant first: cs is asserted in the ticks with dc = 0..7, where
\* mosi is bit 7 - dc of 0xAB, and cs is deasserted in every later tick,
\* so the device is clocked no ninth time with cs asserted.
C15_ExactlyEightBits ==
  /\ (fsm = "SPI_POWERUP" /\ dc \in 0..7) => (cs = 1 /\ mosi = Bit(\hAB, 7 - dc))
  /\ (fsm = "SPI_POWERUP" /\ dc > 7) => cs = 0

C17_ReceiveOrder ==
  LET pos(j) == 8 * (j \div 8) + 7 - (j % 8)
      j == lat - 33
  IN  /\ fsm = "SPI_RX" =>
           /\ j \in 0..31
           /\ dc = pos(j)
           /\ dat_r \subseteq {pos(i) : i \in 0..(j - 1)}
           /\ dc \notin dat_r
      /\ (fsm = "SPI_RX" /\ j = 0) => dc = 7
      /\ (fsm = "SPI_RX" /\ j = 31) => dc = 24
      /\ Completed => (j = 32 /\ dat_r \subseteq {pos(i) : i \in 0..31})
      /\ {pos(i) : i \in 0..31} = 0..31

\* The last RECEIVE tick: dc is 24, and the first sampled bit sits in bit 7.
C17_Witness ==
  fsm = "SPI_RX" /\ lat = 64 /\ dc = 24 /\ 7 \in dat_r /\ 24 \notin dat_r /\ stable

\* ------------------------------------------------------------------
\* C18: when RECEIVE completes, ack takes the value cyc has at the last
\* RECEIVE tick, whatever stb is, and cs is deasserted: ack = 1 on entering
\* WAITING iff cyc was 1, and with cyc = 0 the read ends without ack.
C18_AckGatedByCycle ==
  /\ [][(fsm = "SPI_RX" /\ fsm' = "SPI_WAITING") =>
          (dc = 24 /\ ack' = cyc /\ cs' = 0)]_vars
  /\ [][(fsm = "SPI_RX" /\ dc = 24) => fsm' = "SPI_WAITING"]_vars
  /\ []((Completed /\ req = "held") => ack = 1)

\* A read has completed with ack = 1 although stb was 0 at its last edge.
C18_Witness == Completed /\ ack = 1 /\ req = "dropped" /\ cs = 0

\* ------------------------------------------------------------------
\* C19: after WAITING is exited the SPI outputs and the counter do not
\* depend on the bus inputs.  Every run is compared with the run that
\* keeps the accepted address on the bus: cs, the clock enable and dc are
\* fixed by the tick number of the read, and at every TRANSMIT tick mosi
\* is the bit of the command word of the accepted address (spio before
\* the step, while stable), whatever address the requester presents next.
C19_OutputsIndependentOfBus ==
  [][ /\ (fsm' \in {"SPI_TX", "SPI_RX"}) => (cs' = 1 /\ clk_en')
      /\ (fsm' = "SPI_TX") => dc' = 32 - lat'
      /\ (fsm = "SPI_TX" /\ fsm' = "SPI_TX" /\ stable) => mosi' = Bit(spio, dc') ]_vars

(***************************************************************************)
(* C20.  In every reachable state ack = 1 implies that the engine is in    *)
(* SPI_WAITING with cs = 0: ack is never asserted in SPI_RESET,            *)
(* SPI_POWERUP, SPI_TX or SPI_RX, so a partially accumulated dat_r is      *)
(* never visible together with ack.                                        *)
(***************************************************************************)
C20_AckOnlyWhenIdle == ack = 1 => (fsm = "SPI_WAITING" /\ cs = 0)

C20_Witness ==
  /\ AckRose /\ fsm = "SPI_WAITING" /\ cs = 0
  /\ stable /\ dat_r = RomWord(adr) /\ dat_r # {}
====
